---- MODULE Spec2Model ----
(***************************************************************************)
(* A model of the ADGM document-review agent: the retrieval layer,         *)
(* src/src/agent/rag/ingest.py (_read_text, chunk_text, ingest_sources,    *)
(* query_improved) and src/src/agent/knowledge/manifest.py; its callers,   *)
(* analysis/checks.py (analyze_document) and chat/qa.py (answer_question); *)
(* and the checklist logic, process/inference.py (infer_process) and       *)
(* process/checklists.py (compute_missing_docs).                           *)
(*                                                                         *)
(* Strings whose characters matter (texts, scope tags) are sequences of    *)
(* one-character strings; identifiers that are only compared for equality  *)
(* or concatenated are TLA+ strings.                                       *)
(***************************************************************************)
EXTENDS Integers, Sequences, FiniteSets, TLC

VARIABLES
    \* chunk_text: its arguments, its locals and its position
    text, size, overlap, start, chunks, chunk_pc,
    \* the corpus on disk: data/sources_manifest.json and the source files
    manifest_file, files,
    \* the vector store: whether the named collection exists, its records by
    \* id, and what the backend's add does with an id it already holds
    has_collection, collection, add_existing,
    \* ingest_sources: calls made so far and the outcome of the latest call
    runs, ingest_result,
    \* history of the ingestion runs: the outcome of the run before the
    \* latest and the ids the collection held after it, the ids and records
    \* the latest run produced, whether the corpus changed since the latest
    \* run, and whether the latest run was a repeat on an unchanged corpus
    prev_result, prev_ids, run_ids, run_records, dirty, rerun,
    \* the optional parsers whose import at the top of ingest.py succeeded
    parsers,
    \* read_text_from_source: the path it was called for, what it raised and
    \* returned, and its position
    x_path, x_result, x_pc,
    \* whether the imports at the top of ingest.py succeeded: chromadb (with
    \* sentence_transformers.SentenceTransformer) and
    \* sentence_transformers.CrossEncoder; a failed import leaves None
    chromadb, cross_encoder,
    \* query_improved: the arguments of the latest call, what it raised, and
    \* its locals at each stage: the candidates pulled from the collection,
    \* the candidates after the scope filter and after the source-id filter,
    \* how the re-ranking went, the scores, the sorted (candidate, score)
    \* pairs, the final candidates and the passages returned
    q_args, q_raised, pulled, after_scope, filtered, rerank_step, scores,
    ranked, candidates, q_result,
    \* "ready" before the call of query_improved, "returned" after it
    q_pc,
    \* GeminiClient.enabled: library importable, key configured, provider gemini
    gemini_enabled,
    \* analyze_document: the document analysed, the passages retrieved, the
    \* issues returned, what the call raised, and its position
    a_doc, a_retrieved, a_issues, a_raised, a_pc,
    \* answer_question: its arguments; the passages, answer and citations
    \* returned; what the call raised, and its position
    qa_args, qa_passages, qa_answer, qa_citations, qa_raised, qa_pc,
    \* the labels of the uploaded documents; infer_process: its result and
    \* position; compute_missing_docs: the process it was called for, the two
    \* lists it returned, and its position
    doc_types, auto_process, ip_pc, cm_process, present, missing, cm_pc,
    \* compare_uploaded_to_required, called for the same process and labels:
    \* the two lists it returned, and its position
    fb_present, fb_missing, fb_pc

chunkVars == <<text, size, overlap, start, chunks, chunk_pc>>

ingestVars == <<manifest_file, files, has_collection, collection, add_existing,
                runs, ingest_result, prev_result, prev_ids, run_ids,
                run_records, dirty, rerun>>

extractVars == <<parsers, x_path, x_result, x_pc>>

queryVars == <<chromadb, cross_encoder, q_args, q_raised, pulled, after_scope, filtered,
               rerank_step, scores, ranked, candidates, q_result, q_pc>>

assistVars == <<gemini_enabled, a_doc, a_retrieved, a_issues, a_raised, a_pc,
                qa_args, qa_passages, qa_answer, qa_citations, qa_raised, qa_pc>>

checklistVars == <<doc_types, auto_process, ip_pc, cm_process, present, missing, cm_pc,
                   fb_present, fb_missing, fb_pc>>

vars == <<text, size, overlap, start, chunks, chunk_pc,
          manifest_file, files, has_collection, collection, add_existing,
          runs, ingest_result, prev_result, prev_ids, run_ids, run_records,
          dirty, rerun,
          parsers, x_path, x_result, x_pc,
          chromadb, cross_encoder, q_args, q_raised, pulled, after_scope, filtered,
          rerank_step, scores, ranked, candidates, q_result, q_pc,
          gemini_enabled, a_doc, a_retrieved, a_issues, a_raised, a_pc,
          qa_args, qa_passages, qa_answer, qa_citations, qa_raised, qa_pc,
          doc_types, auto_process, ip_pc, cm_process, present, missing, cm_pc,
          fb_present, fb_missing, fb_pc>>

\* A component that a specification does not exercise rests in these states.
IdleChunk ==
    /\ text = <<>> /\ size = 0 /\ overlap = 0
    /\ start = 0 /\ chunks = <<>> /\ chunk_pc = "idle"

NoResult == [raised |-> "None", chunks_indexed |-> 0]

IdleIngest ==
    /\ manifest_file = [state |-> "missing", sources |-> <<>>]
    /\ files = <<>>
    /\ has_collection = FALSE /\ collection = <<>> /\ add_existing = "ignore"
    /\ runs = 0 /\ ingest_result = NoResult
    /\ prev_result = NoResult /\ prev_ids = {}
    /\ run_ids = <<>> /\ run_records = <<>>
    /\ dirty = FALSE /\ rerun = FALSE

\* BeautifulSoup (bs4), pypdf and docx (python-docx), lines 9-22
Parsers == {"BeautifulSoup", "pypdf", "docx"}

\* before the first call of read_text_from_source
NoExtract == x_path = "" /\ x_result = [raised |-> "None", text |-> <<>>] /\ x_pc = "idle"

IdleExtract == parsers = Parsers /\ NoExtract

\* before the first call of infer_process and of compute_missing_docs
NoChecklist ==
    /\ auto_process = "" /\ ip_pc = "idle"
    /\ cm_process = "" /\ present = <<>> /\ missing = <<>> /\ cm_pc = "idle"
    /\ fb_present = <<>> /\ fb_missing = <<>> /\ fb_pc = "idle"

IdleChecklist == doc_types = <<>> /\ NoChecklist

NoArgs ==
    [top_k |-> 0, pre_k |-> 0, filter_scopes |-> <<>>,
     filter_source_ids |-> <<>>, use_reranker |-> FALSE]

\* before the first call of query_improved
NoQuery ==
    /\ q_args = NoArgs /\ q_raised = "None"
    /\ pulled = <<>> /\ after_scope = <<>> /\ filtered = <<>>
    /\ rerank_step = "none" /\ scores = <<>> /\ ranked = <<>>
    /\ candidates = <<>> /\ q_result = <<>>
    /\ q_pc = "ready"

IdleQuery == cross_encoder = FALSE /\ NoQuery

NoDoc == [doc_type |-> "", adgm |-> FALSE, terms |-> {}, numbered |-> FALSE]

NoQuestion == [question |-> <<>>, scopes_given |-> FALSE, scopes |-> <<>>, top_k |-> 0]

\* before the first call of analyze_document and of answer_question
NoAssist ==
    /\ a_doc = NoDoc /\ a_retrieved = <<>> /\ a_issues = <<>>
    /\ a_raised = "None" /\ a_pc = "idle"
    /\ qa_args = NoQuestion /\ qa_passages = <<>> /\ qa_answer = ""
    /\ qa_citations = <<>> /\ qa_raised = "None" /\ qa_pc = "idle"

IdleAssist == gemini_enabled = FALSE /\ NoAssist

\* a failed call of query_improved: nothing pulled, nothing returned
FailedQuery(err) ==
    [raised |-> err, pulled |-> <<>>, after_scope |-> <<>>, filtered |-> <<>>,
     step |-> "none", scores |-> <<>>, ranked |-> <<>>, candidates |-> <<>>,
     result |-> <<>>]

----------------------------------------------------------------------------
(* Bounds of the model *)

\* longest text handed to chunk_text
MaxLen == 5
\* largest chunk size tried
MaxSize == 4
\* largest overlap tried
MaxOverlap == 4
\* chunks a run may collect before the model stops following it
MaxChunks == 6
\* most entries in a manifest
MaxSources == 2
\* most calls of ingest_sources followed
MaxRuns == 2
\* chunk_size and chunk_overlap of the ingestion runs followed
CfgChunkSize == 2
CfgChunkOverlap == 1
\* largest top_k and pre_k passed to query_improved
MaxTopK == 2
MaxPreK == 3
\* largest relevance score the re-ranker gives (scores are 0..MaxScore)
MaxScore == 1

----------------------------------------------------------------------------
(* Helpers *)

Min(a, b) == IF a <= b THEN a ELSE b

Max(a, b) == IF a >= b THEN a ELSE b

\* all sequences over S of length at most n
SeqsUpTo(S, n) == UNION { [1..k -> S] : k \in 0..n }

\* Python's s[a:b] for 0 <= a <= b <= len(s)
Slice(s, a, b) == SubSeq(s, a + 1, b)

----------------------------------------------------------------------------
(* chunk_text(text, size, overlap)                      ingest.py 100-111 *)

TextChars == {"a", "b"}

\* end = min(len(text), start + size)
ChunkEnd(t, st, sz) == Min(Len(t), st + sz)

\* a slip that forgets the overlap: the next window starts where this one ended
NextStartNoOverlap(end, ov) == end

\* start = max(0, end - overlap)
NextStart(end, ov) == Max(0, end - ov)

\* One pass of the while loop from (start, chunks), the loop test included.
ChunkIter(t, sz, ov, st, acc) ==
    IF ~(st < Len(t))
    THEN [chunks |-> acc, start |-> st, done |-> TRUE]
    ELSE LET end   == ChunkEnd(t, st, sz)
             chunk == Slice(t, st, end)
             acc2  == IF chunk # <<>> THEN Append(acc, chunk) ELSE acc
         IN  IF end = Len(t)
             THEN [chunks |-> acc2, start |-> st, done |-> TRUE]
             ELSE [chunks |-> acc2, start |-> NextStart(end, ov), done |-> FALSE]

InitChunkText ==
    /\ text \in SeqsUpTo(TextChars, MaxLen)
    /\ size \in 0..MaxSize
    /\ overlap \in 0..MaxOverlap
    /\ start = 0
    /\ chunks = <<>>
    /\ chunk_pc = "loop"
    /\ IdleIngest
    /\ chromadb = TRUE
    /\ IdleQuery
    /\ IdleAssist
    /\ IdleExtract
    /\ IdleChecklist

ChunkStep ==
    /\ chunk_pc = "loop"
    /\ Len(chunks) < MaxChunks
    /\ LET r == ChunkIter(text, size, overlap, start, chunks)
       IN  /\ chunks' = r.chunks
           /\ start' = r.start
           /\ chunk_pc' = IF r.done THEN "done" ELSE "loop"
    /\ UNCHANGED <<text, size, overlap>>
    /\ UNCHANGED ingestVars
    /\ UNCHANGED queryVars
    /\ UNCHANGED assistVars
    /\ UNCHANGED extractVars
    /\ UNCHANGED checklistVars

NextChunk == ChunkStep

SpecChunk == InitChunkText /\ [][NextChunk]_vars

----------------------------------------------------------------------------
(* Claims about chunk_text *)

\* C1 (as claimed): chunk_text terminates for every (size, overlap) because
\* the start offset strictly advances on every pass of the loop that does
\* not leave it.
C1_StartAdvances ==
    [][(chunk_pc = "loop" /\ chunk_pc' = "loop") => start' > start]_vars

\* drop the first n characters of s
DropFirst(s, n) == SubSeq(s, n + 1, Len(s))

RECURSIVE ConcatTails(_, _, _)
ConcatTails(cs, i, ov) ==
    IF i > Len(cs) THEN <<>>
    ELSE DropFirst(cs[i], ov) \o ConcatTails(cs, i + 1, ov)

\* the first chunk whole, every later chunk without its first ov characters
Reassemble(cs, ov) ==
    IF cs = <<>> THEN <<>> ELSE cs[1] \o ConcatTails(cs, 2, ov)

\* C2: for 0 <= overlap < size, the chunks with the overlaps removed
\* concatenate to exactly the text; the empty text gives no chunks.
C2_Reassembles ==
    (chunk_pc = "done" /\ 0 <= overlap /\ overlap < size) =>
        /\ Reassemble(chunks, overlap) = text
        /\ (text = <<>> => chunks = <<>>)

C2_Witness ==
    /\ chunk_pc = "done"
    /\ 0 < overlap /\ overlap < size
    /\ Len(chunks) >= 3
    /\ Reassemble(chunks, overlap) = text

\* ceil(a / b) for b > 0
CeilDiv(a, b) == -((-a) \div b)

\* C3 (as claimed): for non-empty text and 0 <= overlap < size the number of
\* chunks is ceil((len - overlap) / (size - overlap)), also for texts no
\* longer than overlap.
C3_CountIsCeil ==
    (chunk_pc = "done" /\ Len(text) > 0 /\ 0 <= overlap /\ overlap < size) =>
        Len(chunks) = CeilDiv(Len(text) - overlap, size - overlap)

\* C3 (amended): the number of chunks is max(1, ceil((len - overlap) /
\* (size - overlap))): the ceiling whenever len > overlap, and exactly one
\* chunk for a non-empty text no longer than overlap (so at least one for
\* any non-empty text shorter than size).
C3_CountIsCeilAtLeastOne ==
    (chunk_pc = "done" /\ Len(text) > 0 /\ 0 <= overlap /\ overlap < size) =>
        /\ Len(chunks) = Max(1, CeilDiv(Len(text) - overlap, size - overlap))
        /\ (Len(text) > overlap =>
               Len(chunks) = CeilDiv(Len(text) - overlap, size - overlap))
        /\ (Len(text) <= overlap => Len(chunks) = 1)
        /\ (Len(text) < size => Len(chunks) >= 1)

C3_Witness ==
    /\ chunk_pc = "done"
    /\ 0 < overlap /\ overlap < size
    /\ Len(text) > size
    /\ (Len(text) - overlap) % (size - overlap) = 0
    /\ Len(chunks) = (Len(text) - overlap) \div (size - overlap)
    /\ Len(chunks) >= 2

----------------------------------------------------------------------------
(* SourcesManifest.load                                   manifest.py 26-43 *)

\* The manifest file is missing, is not JSON, or parses to a list of items;
\* an item is a JSON object, a record that may lack keys.
ItemA ==
    [id |-> "a", title |-> "T1", type |-> "regulation", path |-> "p1",
     citation |-> "C1", scope |-> << <<"E", "m">>, <<"c">> >>]

\* the id of a source that reads like a chunk id of source "a"
ItemA1 ==
    [id |-> "a_1", title |-> "T2", type |-> "guidance", path |-> "p2"]

ItemB ==
    [id |-> "b", title |-> "T3", type |-> "regulation", path |-> "p1",
     citation |-> "C3", scope |-> << <<"c">> >>]

\* a second entry with the id of ItemA
ItemADup ==
    [id |-> "a", title |-> "T4", type |-> "template", path |-> "p2",
     citation |-> "C4", scope |-> <<>>]

\* an entry without its id
ItemNoId ==
    [title |-> "T5", type |-> "regulation", path |-> "p1"]

ManifestItems == {ItemA, ItemA1, ItemB, ItemADup, ItemNoId}

ManifestFiles ==
    {[state |-> "missing", sources |-> <<>>],
     [state |-> "malformed", sources |-> <<>>]}
    \cup {[state |-> "ok", sources |-> ss] : ss \in SeqsUpTo(ManifestItems, MaxSources)}

RequiredFields == {"id", "title", "type", "path"}

\* SourceEntry(id=item["id"], ..., citation=item.get("citation", ""),
\*             scope=item.get("scope", []))
LoadItem(item) ==
    [id       |-> item.id,
     title    |-> item.title,
     type     |-> item.type,
     path     |-> item.path,
     citation |-> IF "citation" \in DOMAIN item THEN item.citation ELSE "",
     scope    |-> IF "scope" \in DOMAIN item THEN item.scope ELSE <<>>]

\* a slip: an entry without a required field is skipped, the rest loaded
SourcesManifestLoadSkipsBad(mf) ==
    IF mf.state = "missing" THEN [raised |-> "FileNotFoundError", sources |-> <<>>]
    ELSE IF mf.state = "malformed" THEN [raised |-> "JSONDecodeError", sources |-> <<>>]
    ELSE LET ok == SelectSeq(mf.sources, LAMBDA it : RequiredFields \subseteq DOMAIN it)
         IN  [raised |-> "None", sources |-> [i \in 1..Len(ok) |-> LoadItem(ok[i])]]

\* load: what it raises ("None": nothing) and the entries it returns
SourcesManifestLoad(mf) ==
    IF mf.state = "missing"
    THEN [raised |-> "FileNotFoundError", sources |-> <<>>]
    ELSE IF mf.state = "malformed"
    THEN [raised |-> "JSONDecodeError", sources |-> <<>>]
    ELSE IF \E i \in 1..Len(mf.sources) : ~(RequiredFields \subseteq DOMAIN mf.sources[i])
    THEN [raised |-> "KeyError", sources |-> <<>>]
    ELSE [raised |-> "None",
          sources |-> [i \in 1..Len(mf.sources) |-> LoadItem(mf.sources[i])]]

----------------------------------------------------------------------------
(* read_text_from_source, chunk_text as a function, collection.add *)

Paths == {"p1", "p2"}

\* A file on disk: its extension, whether it can be opened, whether its
\* bytes are a well-formed document of its format, its bytes decoded as UTF-8
\* with errors="ignore" (content), and the text its format's parser extracts
\* from it (parsed).
NotFound ==
    [exists |-> FALSE, ext |-> "", readable |-> FALSE, well_formed |-> FALSE,
     content |-> <<>>, parsed |-> <<>>]

\* a readable plain-text file
TextFile(c) ==
    [exists |-> TRUE, ext |-> ".txt", readable |-> TRUE, well_formed |-> TRUE,
     content |-> c, parsed |-> c]

\* what a source path resolves to: nothing, or a plain-text file's content
SourceFiles ==
    {NotFound,
     TextFile(<<" ">>),
     TextFile(<<"a", "b", "c">>),
     TextFile(<<"b", "a">>)}

\* _read_text, lines 64-90: what it raises ("None": nothing) and returns. The
\* three parser branches run outside any try: open() raises for a file that
\* cannot be opened, pypdf.PdfReader and docx.Document raise for bytes that
\* are not a document of their format (html.parser takes any markup). A
\* format whose parser is missing falls through to the plain read of lines
\* 86-90, the only guarded one.
ReadText(f, ps) ==
    IF f.ext \in {".html", ".htm"} /\ "BeautifulSoup" \in ps
    THEN IF ~f.readable THEN [raised |-> "OSError", text |-> <<>>]
         ELSE [raised |-> "None", text |-> f.parsed]
    ELSE IF f.ext = ".pdf" /\ "pypdf" \in ps
    THEN IF ~f.readable THEN [raised |-> "OSError", text |-> <<>>]
         ELSE IF ~f.well_formed THEN [raised |-> "PdfReadError", text |-> <<>>]
         ELSE [raised |-> "None", text |-> f.parsed]
    ELSE IF f.ext = ".docx" /\ "docx" \in ps
    THEN IF ~f.readable \/ ~f.well_formed
         THEN [raised |-> "PackageNotFoundError", text |-> <<>>]
         ELSE [raised |-> "None", text |-> f.parsed]
    ELSE IF ~f.readable THEN [raised |-> "None", text |-> <<>>]
    ELSE [raised |-> "None", text |-> f.content]

\* lines 93-97: _resolve_source_path gives None for a path that exists under
\* neither root, and read_text_from_source then returns ""
ReadTextFromSource(fs, src, ps) ==
    IF ~fs[src.path].exists THEN [raised |-> "None", text |-> <<>>]
    ELSE ReadText(fs[src.path], ps)

Whitespace == {" "}

\* not text or not text.strip()
IsBlank(t) == \A i \in 1..Len(t) : t[i] \in Whitespace

RECURSIVE ChunkFrom(_, _, _, _, _)
ChunkFrom(t, sz, ov, st, acc) ==
    LET r == ChunkIter(t, sz, ov, st, acc)
    IN  IF r.done THEN r.chunks ELSE ChunkFrom(t, sz, ov, r.start, r.chunks)

\* chunk_text(text, size, overlap), for a configuration on which it returns
chunk_text(t, sz, ov) == ChunkFrom(t, sz, ov, 0, <<>>)

\* f"{src.id}_{i}"
ChunkId(sid, i) == sid \o "_" \o ToString(i)

RECURSIVE Join(_, _)
\* sep.join(parts)
Join(parts, sep) ==
    IF parts = <<>> THEN <<>>
    ELSE IF Len(parts) = 1 THEN parts[1]
    ELSE parts[1] \o sep \o Join(Tail(parts), sep)

\* the metadata dict given to every chunk of src
Metadata(src) ==
    [source_id |-> src.id,
     title     |-> src.title,
     type      |-> src.type,
     citation  |-> src.citation,
     scope     |-> Join(src.scope, <<";">>)]

\* the records of one add call, by id
Batch(ids, docs, meta) ==
    [id \in {ids[k] : k \in 1..Len(ids)} |->
        [document |-> docs[CHOOSE k \in 1..Len(ids) : ids[k] = id],
         metadata |-> meta]]

\* collection.add(ids, documents, metadatas): an insert, not an upsert. For an
\* id the collection already holds, the backend either rejects the call or
\* drops the new record and keeps the one it has (how = add_existing).
CollectionAdd(coll, ids, docs, meta, how) ==
    LET batch == Batch(ids, docs, meta)
    IN  IF how = "reject" /\ (DOMAIN batch \cap DOMAIN coll) # {}
        THEN [raised |-> "DuplicateIDError", collection |-> coll]
        ELSE [raised |-> "None", collection |-> coll @@ batch]

----------------------------------------------------------------------------
(* ingest_sources(root_dir, config)                     ingest.py 121-154 *)

\* cfg = (CfgChunkSize, CfgChunkOverlap)

RECURSIVE IngestFrom(_, _, _, _, _, _, _)
\* The for loop over manifest.all() from entry i on. acc carries total_chunks
\* and, for the record of the run, the ids assigned so far and the record
\* the run last produced for each id. An exception out of the extraction or
\* out of collection.add ends the loop and the run.
IngestFrom(srcs, i, fs, ps, coll, how, acc) ==
    IF i > Len(srcs)
    THEN [raised |-> "None", collection |-> coll, total |-> acc.total,
          ids |-> acc.ids, records |-> acc.records]
    ELSE LET src == srcs[i]
             x   == ReadTextFromSource(fs, src, ps)
             t   == x.text
         IN  IF x.raised # "None"
             THEN [raised |-> x.raised, collection |-> coll, total |-> acc.total,
                   ids |-> acc.ids, records |-> acc.records]
             ELSE IF IsBlank(t)
             THEN IngestFrom(srcs, i + 1, fs, ps, coll, how, acc)
             ELSE LET cs == chunk_text(t, CfgChunkSize, CfgChunkOverlap)
                  IN  IF cs = <<>>
                      THEN IngestFrom(srcs, i + 1, fs, ps, coll, how, acc)
                      ELSE LET ids  == [k \in 1..Len(cs) |-> ChunkId(src.id, k - 1)]
                               meta == Metadata(src)
                               r    == CollectionAdd(coll, ids, cs, meta, how)
                               acc2 == [total   |-> acc.total + Len(cs),
                                        ids     |-> acc.ids \o ids,
                                        records |-> Batch(ids, cs, meta) @@ acc.records]
                           IN  IF r.raised # "None"
                               THEN [raised |-> r.raised, collection |-> coll,
                                     total |-> acc.total, ids |-> acc2.ids,
                                     records |-> acc2.records]
                               ELSE IngestFrom(srcs, i + 1, fs, ps, r.collection, how, acc2)

InitIngest ==
    /\ manifest_file \in ManifestFiles
    /\ files \in [Paths -> SourceFiles]
    /\ has_collection = FALSE
    /\ collection = <<>>
    /\ add_existing \in {"ignore", "reject"}
    /\ runs = 0
    /\ ingest_result = NoResult
    /\ prev_result = NoResult
    /\ prev_ids = {}
    /\ run_ids = <<>>
    /\ run_records = <<>>
    /\ dirty = FALSE
    /\ rerun = FALSE
    /\ chromadb \in BOOLEAN
    /\ IdleChunk
    /\ IdleQuery
    /\ IdleAssist
    /\ IdleExtract
    /\ IdleChecklist

\* One call of ingest_sources, from the manifest load to the return (or to
\* the exception that ends it).
ingest_sources ==
    /\ runs < MaxRuns
    /\ runs' = runs + 1
    /\ prev_result' = ingest_result
    /\ prev_ids' = DOMAIN collection
    /\ rerun' = (runs > 0 /\ ~dirty)
    /\ dirty' = FALSE
    /\ LET m == SourcesManifestLoad(manifest_file)
       IN  IF ~chromadb
           THEN \* the assert of line 122
                /\ ingest_result' = [raised |-> "AssertionError", chunks_indexed |-> 0]
                /\ run_ids' = <<>>
                /\ run_records' = <<>>
                /\ UNCHANGED <<has_collection, collection>>
           ELSE IF m.raised # "None"
           THEN /\ ingest_result' = [raised |-> m.raised, chunks_indexed |-> 0]
                /\ run_ids' = <<>>
                /\ run_records' = <<>>
                /\ UNCHANGED <<has_collection, collection>>
           ELSE LET r == IngestFrom(m.sources, 1, files, parsers, collection, add_existing,
                                    [total |-> 0, ids |-> <<>>, records |-> <<>>])
                IN  /\ has_collection' = TRUE
                    /\ collection' = r.collection
                    /\ ingest_result' =
                         [raised |-> r.raised,
                          chunks_indexed |-> IF r.raised = "None" THEN r.total ELSE 0]
                    /\ run_ids' = r.ids
                    /\ run_records' = r.records
    /\ UNCHANGED <<manifest_file, files, add_existing>>
    /\ UNCHANGED chunkVars
    /\ UNCHANGED queryVars
    /\ UNCHANGED assistVars
    /\ UNCHANGED extractVars
    /\ UNCHANGED checklistVars

\* Between two runs a source file is rewritten, created or removed (the model
\* follows one change of the corpus between two runs).
WriteSourceFile ==
    /\ 0 < runs /\ runs < MaxRuns
    /\ ~dirty
    /\ \E p \in Paths, f \in SourceFiles :
        /\ f # files[p]
        /\ files' = [files EXCEPT ![p] = f]
    /\ dirty' = TRUE
    /\ UNCHANGED <<manifest_file, has_collection, collection, add_existing, runs,
                   ingest_result, prev_result, prev_ids, run_ids, run_records, rerun>>
    /\ UNCHANGED chunkVars
    /\ UNCHANGED queryVars
    /\ UNCHANGED assistVars
    /\ UNCHANGED extractVars
    /\ UNCHANGED checklistVars

\* what a rewrite of the manifest file can leave: the file removed, the file
\* corrupted, an entry appended, the last entry dropped
ManifestRewrites(mf) ==
    {[state |-> "missing", sources |-> <<>>],
     [state |-> "malformed", sources |-> <<>>]}
    \cup {[state |-> "ok", sources |-> Append(mf.sources, it)] :
            it \in {x \in ManifestItems : Len(mf.sources) < MaxSources}}
    \cup {[state |-> "ok", sources |-> SubSeq(mf.sources, 1, Len(mf.sources) - 1)] :
            k \in {n \in {Len(mf.sources)} : n > 0}}

\* Between two runs the manifest file is rewritten.
WriteManifest ==
    /\ 0 < runs /\ runs < MaxRuns
    /\ ~dirty
    /\ \E mf \in ManifestRewrites(manifest_file) :
        /\ mf # manifest_file
        /\ manifest_file' = mf
    /\ dirty' = TRUE
    /\ UNCHANGED <<files, has_collection, collection, add_existing, runs,
                   ingest_result, prev_result, prev_ids, run_ids, run_records, rerun>>
    /\ UNCHANGED chunkVars
    /\ UNCHANGED queryVars
    /\ UNCHANGED assistVars
    /\ UNCHANGED extractVars
    /\ UNCHANGED checklistVars

\* One call of read_text_from_source for a source entry with path p
read_text_from_source ==
    /\ x_pc = "idle"
    /\ x_pc' = "returned"
    /\ \E p \in Paths :
        /\ x_path' = p
        /\ x_result' = ReadTextFromSource(files, [path |-> p], parsers)
    /\ UNCHANGED parsers
    /\ UNCHANGED ingestVars
    /\ UNCHANGED chunkVars
    /\ UNCHANGED queryVars
    /\ UNCHANGED assistVars
    /\ UNCHANGED checklistVars

NextIngest == ingest_sources \/ WriteSourceFile \/ WriteManifest

SpecIngest == InitIngest /\ [][NextIngest]_vars

\* files of every format the extractor tells apart: plain text, HTML, PDF and
\* DOCX, readable or not, well-formed or not
FormatFile(ext, readable, well_formed, content, parsed) ==
    [exists |-> TRUE, ext |-> ext, readable |-> readable,
     well_formed |-> well_formed, content |-> content, parsed |-> parsed]

ExtractFiles ==
    {NotFound,
     TextFile(<<" ">>),
     TextFile(<<"a", "b", "c">>),
     FormatFile(".txt", FALSE, TRUE, <<"a", "b">>, <<"a", "b">>),
     FormatFile(".html", TRUE, TRUE, <<"<", "b", ">", "a">>, <<"a">>),
     FormatFile(".html", FALSE, TRUE, <<"<", "b", ">", "a">>, <<"a">>),
     FormatFile(".pdf", TRUE, TRUE, <<"%", "P">>, <<"a", "b">>),
     FormatFile(".pdf", TRUE, FALSE, <<"%", "x">>, <<>>),
     FormatFile(".docx", TRUE, TRUE, <<"P", "K">>, <<"b", "a">>),
     FormatFile(".docx", TRUE, FALSE, <<"P", "x">>, <<>>)}

\* manifests that load: the extraction is what varies
ExtractManifests ==
    {[state |-> "ok", sources |-> ss] : ss \in SeqsUpTo({ItemA1, ItemB}, MaxSources)}

InitExtract ==
    /\ manifest_file \in ExtractManifests
    /\ files \in [Paths -> ExtractFiles]
    /\ has_collection = FALSE
    /\ collection = <<>>
    /\ add_existing \in {"ignore", "reject"}
    /\ runs = 0
    /\ ingest_result = NoResult
    /\ prev_result = NoResult
    /\ prev_ids = {}
    /\ run_ids = <<>>
    /\ run_records = <<>>
    /\ dirty = FALSE
    /\ rerun = FALSE
    /\ parsers \in SUBSET Parsers
    /\ NoExtract
    /\ chromadb = TRUE
    /\ IdleChunk
    /\ IdleQuery
    /\ IdleAssist
    /\ IdleChecklist

NextExtract == read_text_from_source \/ ingest_sources

SpecExtract == InitExtract /\ [][NextExtract]_vars

----------------------------------------------------------------------------
(* Claims about ingestion *)

DistinctSourceIds ==
    LET m == SourcesManifestLoad(manifest_file)
    IN  /\ m.raised = "None"
        /\ \A i, j \in 1..Len(m.sources) :
              i # j => m.sources[i].id # m.sources[j].id

\* C5 (as claimed): after a run of ingest_sources that returned, every chunk
\* id the run produced is stored with the text and metadata that run
\* produced for it (stated for manifests whose source ids are distinct, so
\* that each id has one record per run).
C5_LatestRunStored ==
    (runs > 0 /\ ~dirty /\ ingest_result.raised = "None" /\ DistinctSourceIds) =>
        \A id \in DOMAIN run_records :
            /\ id \in DOMAIN collection
            /\ collection[id] = run_records[id]

\* C6 (as claimed): the chunk ids one run of ingest_sources assigns are
\* pairwise distinct, within a source and across the entries of any manifest
\* that load accepts.
C6_ChunkIdsDistinct ==
    \A i, j \in 1..Len(run_ids) : i # j => run_ids[i] # run_ids[j]

----------------------------------------------------------------------------
(* query_improved                                       ingest.py 193-240 *)

\* str.lower() on the characters the scope tags and the questions use
LowerChar(c) ==
    CASE c = "E" -> "e"
      [] c = "M" -> "m"
      [] c = "C" -> "c"
      [] c = "A" -> "a"
      [] c = "H" -> "h"
      [] c = "I" -> "i"
      [] c = "J" -> "j"
      [] c = "L" -> "l"
      [] c = "W" -> "w"
      [] OTHER   -> c

Lower(str) == [i \in 1..Len(str) |-> LowerChar(str[i])]

\* Python's `needle in hay` on strings
Contains(needle, hay) ==
    \E i \in 0..(Len(hay) - Len(needle)) : Slice(hay, i, i + Len(needle)) = needle

\* any(s in m.get("scope", "").lower() for s in scope_lower)
ScopeMatch(m, scope_lower) ==
    \E k \in 1..Len(scope_lower) : Contains(scope_lower[k], Lower(m.scope))

\* a scope filter that keeps its result even when it is empty
ScopeStageNoFallback(cands, filter_scopes) ==
    IF filter_scopes = <<>> THEN cands
    ELSE LET scope_lower == [k \in 1..Len(filter_scopes) |-> Lower(filter_scopes[k])]
         IN  SelectSeq(cands, LAMBDA c : ScopeMatch(c[2], scope_lower))

\* lines 215-222; filter_scopes None and [] are both <<>>
ScopeStage(cands, filter_scopes) ==
    IF filter_scopes = <<>> THEN cands
    ELSE LET scope_lower == [k \in 1..Len(filter_scopes) |-> Lower(filter_scopes[k])]
             kept == SelectSeq(cands, LAMBDA c : ScopeMatch(c[2], scope_lower))
         IN  IF kept # <<>> THEN kept ELSE cands

\* lines 224-227; filter_source_ids None and [] are both <<>>
SourceIdStage(cands, filter_source_ids) ==
    IF filter_source_ids = <<>> THEN cands
    ELSE LET allow == {filter_source_ids[k] : k \in 1..Len(filter_source_ids)}
             kept  == SelectSeq(cands, LAMBDA c : c[2].source_id \in allow)
         IN  IF kept # <<>> THEN kept ELSE cands

\* a slip that applies both filters and falls back once, to the unfiltered
\* list, when the source-id filter leaves nothing
FilterStageJointFallback(cands, filter_scopes, filter_source_ids) ==
    LET c1    == ScopeStage(cands, filter_scopes)
        allow == {filter_source_ids[k] : k \in 1..Len(filter_source_ids)}
        kept  == SelectSeq(c1, LAMBDA c : c[2].source_id \in allow)
    IN  [after_scope |-> c1,
         filtered    |-> IF filter_source_ids = <<>> THEN c1
                         ELSE IF kept # <<>> THEN kept ELSE cands]

\* lines 215-227: candidates after the scope filter, then after the
\* source-id filter applied to them
FilterStage(cands, filter_scopes, filter_source_ids) ==
    LET c1 == ScopeStage(cands, filter_scopes)
    IN  [after_scope |-> c1, filtered |-> SourceIdStage(c1, filter_source_ids)]

RECURSIVE InsertDesc(_, _)
\* x placed behind every pair of s whose score is not below x's
InsertDesc(s, x) ==
    IF s = <<>> THEN <<x>>
    ELSE IF s[1][2] >= x[2] THEN <<s[1]>> \o InsertDesc(Tail(s), x)
    ELSE <<x>> \o s

RECURSIVE InsertAsc(_, _)
InsertAsc(s, x) ==
    IF s = <<>> THEN <<x>>
    ELSE IF s[1][2] <= x[2] THEN <<s[1]>> \o InsertAsc(Tail(s), x)
    ELSE <<x>> \o s

RECURSIVE InsertOnePerScore(_, _)
InsertOnePerScore(s, x) ==
    IF s = <<>> THEN <<x>>
    ELSE IF s[1][2] = x[2] THEN <<x>> \o Tail(s)
    ELSE IF s[1][2] > x[2] THEN <<s[1]>> \o InsertOnePerScore(Tail(s), x)
    ELSE <<x>> \o s

Reverse(s) == [i \in 1..Len(s) |-> s[Len(s) + 1 - i]]

RECURSIVE SortAscFrom(_, _, _)
SortAscFrom(ps, i, acc) ==
    IF i > Len(ps) THEN acc ELSE SortAscFrom(ps, i + 1, InsertAsc(acc, ps[i]))

\* a slip: sorted(pairs, key=score)[::-1], which turns the ties around
SortedAscReversed(pairs) == Reverse(SortAscFrom(pairs, 1, <<>>))

RECURSIVE OnePerScoreFrom(_, _, _)
OnePerScoreFrom(ps, i, acc) ==
    IF i > Len(ps) THEN acc
    ELSE OnePerScoreFrom(ps, i + 1, InsertOnePerScore(acc, ps[i]))

\* a slip: ranking through a dict keyed by score, one candidate per score
SortedOnePerScore(pairs) == OnePerScoreFrom(pairs, 1, <<>>)

RECURSIVE SortDescFrom(_, _, _)
\* the pairs from the i-th on, each placed into the sorted pairs so far
SortDescFrom(ps, i, acc) ==
    IF i > Len(ps) THEN acc ELSE SortDescFrom(ps, i + 1, InsertDesc(acc, ps[i]))

\* sorted(pairs, key=lambda x: x[1], reverse=True): Python's sort is stable,
\* also with reverse=True
SortedByScoreDesc(pairs) == SortDescFrom(pairs, 1, <<>>)

\* zip(candidates, scores)
Zip(cands, sc) == [i \in 1..Len(cands) |-> <<cands[i], sc[i]>>]

\* the candidates of the ranked pairs
Firsts(r) == [i \in 1..Len(r) |-> r[i][1]]

\* a slip: candidates.sort(...) in place inside the try, so that a failure
\* after the sort leaves the re-ordered list behind
RerankOutcomesSortInPlace(cands, use_reranker, ce) ==
    IF use_reranker /\ ce /\ cands # <<>>
    THEN {[step |-> "load_failed", scores |-> <<>>, ranked |-> <<>>, candidates |-> cands]}
         \cup
         {LET r == SortedByScoreDesc(Zip(cands, sc))
          IN  [step |-> st, scores |-> sc, ranked |-> r, candidates |-> Firsts(r)] :
            sc \in [1..Len(cands) -> 0..MaxScore], st \in {"predict_raised", "ranked"}}
    ELSE {[step |-> "skipped", scores |-> <<>>, ranked |-> <<>>, candidates |-> cands]}

\* Lines 229-237: what the re-ranking step can leave. Inside the try, the
\* model constructor may raise (load_failed) and predict may raise
\* (predict_raised); both are swallowed by the except of line 236 before
\* candidates is assigned. predict gives one score per candidate.
RerankOutcomes(cands, use_reranker, ce) ==
    IF use_reranker /\ ce /\ cands # <<>>
    THEN {[step |-> st, scores |-> <<>>, ranked |-> <<>>, candidates |-> cands] :
            st \in {"load_failed", "predict_raised"}}
         \cup
         {LET r == SortedByScoreDesc(Zip(cands, sc))
          IN  [step |-> "ranked", scores |-> sc, ranked |-> r,
               candidates |-> Firsts(r)] :
            sc \in [1..Len(cands) -> 0..MaxScore]}
    ELSE {[step |-> "skipped", scores |-> <<>>, ranked |-> <<>>, candidates |-> cands]}

\* collection.query(n_results=n): the n nearest records, nearest first; the
\* embedding decides the order, which the model leaves open
PullOrders(coll, n) ==
    LET k == Min(n, Cardinality(DOMAIN coll))
    IN  {o \in [1..k -> DOMAIN coll] : \A i, j \in 1..k : i # j => o[i] # o[j]}

\* lines 207-213: (document, metadata) per hit
Candidates(coll, order) ==
    [i \in 1..Len(order) |-> <<coll[order[i]].document, coll[order[i]].metadata>>]

\* candidates[:top_k]
Trimmed(cands, top_k) == SubSeq(cands, 1, Min(top_k, Len(cands)))

\* {"text": d, **m}
Passage(c) == c[2] @@ ("text" :> c[1])

FilterScopeChoices ==
    {<<>>,
     << <<"e", "M">> >>,
     << <<"x">> >>,
     << <<"x">>, <<"C">> >>}

FilterSourceIdChoices == {<<>>, <<"a_1">>, <<"zz">>}

\* the corpus indexed before the queries: source a with text "aaaa" (equal
\* chunks), source a_1 without scope
QueryManifest == [state |-> "ok", sources |-> <<ItemA, ItemA1>>]

QueryFiles ==
    [p \in Paths |->
        IF p = "p1" THEN TextFile(<<"a", "a", "a", "a">>)
        ELSE TextFile(<<"a", "b", "c", "d">>)]

InitQuery ==
    /\ manifest_file = QueryManifest
    /\ files = QueryFiles
    /\ add_existing = "ignore"
    /\ chromadb \in BOOLEAN
    /\ has_collection \in {FALSE, chromadb}
    /\ LET r == IngestFrom(SourcesManifestLoad(QueryManifest).sources, 1, QueryFiles,
                           Parsers, <<>>, "ignore",
                           [total |-> 0, ids |-> <<>>, records |-> <<>>])
       IN  IF has_collection
           THEN /\ collection = r.collection
                /\ runs = 1
                /\ ingest_result = [raised |-> "None", chunks_indexed |-> r.total]
                /\ run_ids = r.ids
                /\ run_records = r.records
           ELSE /\ collection = <<>>
                /\ runs = 0
                /\ ingest_result = NoResult
                /\ run_ids = <<>>
                /\ run_records = <<>>
    /\ prev_result = NoResult
    /\ prev_ids = {}
    /\ dirty = FALSE
    /\ rerun = FALSE
    /\ cross_encoder \in BOOLEAN
    /\ NoQuery
    /\ IdleChunk
    /\ IdleAssist
    /\ IdleExtract
    /\ IdleChecklist

\* a slip: n_results=top_k, the over-fetch for the filters forgotten
NResultsTopKOnly(pre_k, top_k) == top_k

\* line 206: n_results=max(pre_k, top_k)
NResults(pre_k, top_k) == Max(pre_k, top_k)

\* Lines 202-240: every way one call of query_improved can go in the current
\* state: what it raises and its locals at each stage. The assert of line 202
\* fails without chromadb; client.get_collection raises when the collection
\* was never built.
QueryOutcomes(top_k, pre_k, fs, fi, use) ==
    IF ~chromadb THEN {FailedQuery("AssertionError")}
    ELSE IF ~has_collection THEN {FailedQuery("CollectionNotFound")}
    ELSE UNION {
        LET c0 == Candidates(collection, order)
            f  == FilterStage(c0, fs, fi)
        IN  {[raised |-> "None", pulled |-> c0, after_scope |-> f.after_scope,
              filtered |-> f.filtered, step |-> o.step, scores |-> o.scores,
              ranked |-> o.ranked, candidates |-> o.candidates,
              result |-> [i \in 1..Min(top_k, Len(o.candidates)) |->
                            Passage(Trimmed(o.candidates, top_k)[i])]] :
             o \in RerankOutcomes(f.filtered, use, cross_encoder)} :
        order \in PullOrders(collection, NResults(pre_k, top_k))}

\* the call with these arguments went as o: its arguments and locals
QueryCall(top_k, pre_k, fs, fi, use, o) ==
    /\ q_pc' = "returned"
    /\ q_args' = [top_k |-> top_k, pre_k |-> pre_k, filter_scopes |-> fs,
                  filter_source_ids |-> fi, use_reranker |-> use]
    /\ q_raised' = o.raised
    /\ pulled' = o.pulled
    /\ after_scope' = o.after_scope
    /\ filtered' = o.filtered
    /\ rerank_step' = o.step
    /\ scores' = o.scores
    /\ ranked' = o.ranked
    /\ candidates' = o.candidates
    /\ q_result' = o.result
    /\ UNCHANGED <<chromadb, cross_encoder>>

\* One call of query_improved. The call reads the collection and writes
\* nothing, so a behaviour follows one call.
query_improved ==
    /\ q_pc = "ready"
    /\ \E top_k \in 0..MaxTopK, pre_k \in 1..MaxPreK,
          fs \in FilterScopeChoices, fi \in FilterSourceIdChoices,
          use \in BOOLEAN :
        \E o \in QueryOutcomes(top_k, pre_k, fs, fi, use) :
            QueryCall(top_k, pre_k, fs, fi, use, o)
    /\ UNCHANGED ingestVars
    /\ UNCHANGED chunkVars
    /\ UNCHANGED assistVars
    /\ UNCHANGED extractVars
    /\ UNCHANGED checklistVars

NextQuery == query_improved

SpecQuery == InitQuery /\ [][NextQuery]_vars

----------------------------------------------------------------------------
(* Claims about the filter stage and the re-ranking of query_improved *)

\* case-insensitive form of a tag
Folded(str) ==
    [i \in 1..Len(str) |->
        IF str[i] = "E" THEN "e"
        ELSE IF str[i] = "M" THEN "m"
        ELSE IF str[i] = "C" THEN "c"
        ELSE str[i]]

\* n occurs in h as a run of consecutive characters
IsSubstring(n, h) ==
    \E a, b \in 0..Len(h) : a <= b /\ SubSeq(h, a + 1, b) = n

\* some requested scope is, ignoring case, a substring of c's scope metadata
ScopeHit(c, fs) ==
    \E k \in 1..Len(fs) : IsSubstring(Folded(fs[k]), Folded(c[2].scope))

\* c's source_id is in the allowlist
SourceHit(c, fi) == \E k \in 1..Len(fi) : fi[k] = c[2].source_id

\* C: the candidates with a scope hit, in order; its input when there is none
StageC(cands, fs) ==
    LET kept == SelectSeq(cands, LAMBDA c : ScopeHit(c, fs))
    IN  IF kept = <<>> THEN cands ELSE kept

\* S: the candidates with an allowed source, in order; its input when there
\* is none
StageS(cands, fi) ==
    LET kept == SelectSeq(cands, LAMBDA c : SourceHit(c, fi))
    IN  IF kept = <<>> THEN cands ELSE kept

QueryReturned == q_pc = "returned" /\ q_raised = "None"

\* C7: a non-empty candidate list stays non-empty through the scope filter
\* and the source-id filter, whatever the filters; a filter that matches no
\* candidate of its input returns that input unchanged.
C7_FiltersNeverEmpty ==
    (QueryReturned /\ pulled # <<>>) =>
        /\ after_scope # <<>>
        /\ filtered # <<>>
        /\ ((\A i \in 1..Len(pulled) : ~ScopeHit(pulled[i], q_args.filter_scopes))
              => after_scope = pulled)
        /\ ((\A i \in 1..Len(after_scope) :
                ~SourceHit(after_scope[i], q_args.filter_source_ids))
              => filtered = after_scope)

C7_Witness ==
    /\ QueryReturned
    /\ Len(pulled) >= 2
    /\ q_args.filter_scopes # <<>>
    /\ q_args.filter_source_ids # <<>>
    /\ \A i \in 1..Len(pulled) :
          /\ ~ScopeHit(pulled[i], q_args.filter_scopes)
          /\ ~SourceHit(pulled[i], q_args.filter_source_ids)
    /\ filtered = pulled

\* C8: the filter stage is S(C(candidates)): the scope filter C, then the
\* source-id filter S on C's output, each falling back to its own input; a
\* source-id filter that matches nothing after a scope filter that matched
\* keeps the scope-filtered list.
C8_FilterIsComposition ==
    QueryReturned =>
        /\ after_scope = StageC(pulled, q_args.filter_scopes)
        /\ filtered = StageS(StageC(pulled, q_args.filter_scopes),
                             q_args.filter_source_ids)

C8_Witness ==
    /\ QueryReturned
    /\ Len(after_scope) < Len(pulled)
    /\ q_args.filter_source_ids # <<>>
    /\ \E i \in 1..Len(pulled) : SourceHit(pulled[i], q_args.filter_source_ids)
    /\ \A i \in 1..Len(after_scope) :
          ~SourceHit(after_scope[i], q_args.filter_source_ids)
    /\ filtered = after_scope
    /\ filtered # pulled

\* how often x occurs in s
Count(s, x) == Cardinality({i \in 1..Len(s) : s[i] = x})

Range(s) == {s[i] : i \in 1..Len(s)}

\* C9: when the re-ranking ran, its output is a permutation of its input
\* (each candidate as often as before); scores that are all equal leave the
\* order as it was; ranking the ranked pairs again changes nothing.
C9_RerankPermutes ==
    (QueryReturned /\ rerank_step = "ranked") =>
        /\ Len(candidates) = Len(filtered)
        /\ \A c \in Range(filtered) \cup Range(candidates) :
              Count(candidates, c) = Count(filtered, c)
        /\ ((\A i, j \in 1..Len(scores) : scores[i] = scores[j])
              => candidates = filtered)
        /\ SortedByScoreDesc(ranked) = ranked

C9_Witness ==
    /\ QueryReturned /\ rerank_step = "ranked"
    /\ Len(filtered) >= 3
    /\ \E i, j \in 1..Len(filtered) : i # j /\ filtered[i] = filtered[j]
    /\ candidates # filtered

\* C10: when the re-ranking ran, the candidates are in descending order of
\* score, and the candidates of equal score are in the order they had before
\* the re-ranking.
C10_DescendingStable ==
    (QueryReturned /\ rerank_step = "ranked") =>
        /\ \A i, j \in 1..Len(ranked) : i < j => ranked[i][2] >= ranked[j][2]
        /\ \A v \in 0..MaxScore :
              SelectSeq(ranked, LAMBDA pr : pr[2] = v)
                = SelectSeq(Zip(filtered, scores), LAMBDA pr : pr[2] = v)
        /\ candidates = [i \in 1..Len(ranked) |-> ranked[i][1]]

C10_Witness ==
    /\ QueryReturned /\ rerank_step = "ranked"
    /\ candidates # filtered
    /\ \E i, j \in 1..Len(ranked) :
          i < j /\ ranked[i][2] = ranked[j][2] /\ ranked[i][1] # ranked[j][1]

\* C11: a call whose re-ranking was skipped (disabled, CrossEncoder not
\* importable, nothing to rank) or failed (the model did not load, predict
\* raised) raises nothing and returns the first top_k filtered candidates in
\* the order the filter stage left them.
C11_NoRerankKeepsOrder ==
    (q_pc = "returned" /\ has_collection
        /\ rerank_step \in {"skipped", "load_failed", "predict_raised"}) =>
        /\ q_raised = "None"
        /\ candidates = filtered
        /\ Len(q_result) = Min(q_args.top_k, Len(filtered))
        /\ \A i \in 1..Len(q_result) :
              /\ q_result[i].text = filtered[i][1]
              /\ \A k \in DOMAIN filtered[i][2] : q_result[i][k] = filtered[i][2][k]

\* predict raised over three distinct candidates, of which two are returned
C11_Witness ==
    /\ q_pc = "returned" /\ rerank_step = "predict_raised"
    /\ Len(filtered) = 3 /\ q_args.top_k = 2
    /\ filtered[1] # filtered[2] /\ filtered[2] # filtered[3]
    /\ Len(q_result) = 2

----------------------------------------------------------------------------
(* analyze_document (analysis/checks.py 79-162) and answer_question        *)
(* (chat/qa.py 9-91), the two callers of query_improved                    *)

\* top_k=5, pre_k=30 of the retrieval in analyze_document
ChecksTopK == 5
ChecksPreK == 30

\* pre_k=50 of the retrieval in answer_question, and its default top_k
QaPreK == 50
QaTopKDefault == 5

EmploymentContracts == <<"E", "m", "p", "l", "o", "y", "m", "e", "n", "t", " ", "C", "o", "n", "t", "r", "a", "c", "t", "s">>
AoA == <<"A", "o", "A">>
CompanyIncorporation == <<"C", "o", "m", "p", "a", "n", "y", " ", "I", "n", "c", "o", "r", "p", "o", "r", "a", "t", "i", "o", "n">>
JurisdictionChoiceOfLaw == <<"J", "u", "r", "i", "s", "d", "i", "c", "t", "i", "o", "n", "/", "C", "h", "o", "i", "c", "e", "-", "o", "f", "-", "L", "a", "w">>

\* lines 83-91 of checks.py: the scopes of the retrieval per document type
AnalysisScopes(doc_type) ==
    IF doc_type = "Employment Contract" THEN <<EmploymentContracts>>
    ELSE IF doc_type = "Articles of Association" THEN <<AoA, CompanyIncorporation>>
    ELSE <<JurisdictionChoiceOfLaw>>

\* The document as the rule-based checks see it: whether its text mentions
\* "abu dhabi global market" or "adgm", which of the key terms of lines
\* 121-128 its text matches, and whether it has at least three numbered
\* paragraphs.
KeyTerms == <<"hours", "place", "remuneration", "leave", "notice", "probation">>

TermMessage(t) ==
    CASE t = "hours"        -> "Hours of work not specified."
      [] t = "place"        -> "Place of employment not specified."
      [] t = "remuneration" -> "Remuneration/salary not specified."
      [] t = "leave"        -> "Annual leave entitlement not specified."
      [] t = "notice"       -> "Notice period not specified."
      [] t = "probation"    -> "Probation period not specified."

Docs ==
    {[doc_type |-> "Employment Contract", adgm |-> g, terms |-> ts, numbered |-> FALSE] :
        g \in BOOLEAN, ts \in {{}, {"hours"}, Range(KeyTerms)}}
    \cup {[doc_type |-> "Articles of Association", adgm |-> FALSE, terms |-> {}, numbered |-> n] :
        n \in BOOLEAN}
    \cup {[doc_type |-> "Board Resolution", adgm |-> g, terms |-> {}, numbered |-> FALSE] :
        g \in BOOLEAN}

Filename == "f.docx"

Finding(msg, sev) == [document |-> Filename, issue |-> msg, severity |-> sev]

\* what the model's reply parses to in _ask_gemini_for_issues; the issues get
\* the file name at line 104
LlmIssueChoices == {<<>>, <<Finding("LLM finding", "High")>>}

\* lines 18-58 of checks.py: nothing without Gemini, nothing when the call or
\* the parsing of its reply fails
AskGeminiForIssues(enabled, reply) == IF enabled THEN reply ELSE <<>>

\* lines 107-160 of checks.py
RuleIssues(d) ==
    IF d.doc_type = "Employment Contract"
    THEN (IF ~d.adgm
          THEN <<Finding("Missing explicit ADGM governing law reference in employment contract.", "High")>>
          ELSE <<>>)
         \o [i \in 1..Len(SelectSeq(KeyTerms, LAMBDA t : t \notin d.terms)) |->
               Finding(TermMessage(SelectSeq(KeyTerms, LAMBDA t : t \notin d.terms)[i]), "Medium")]
    ELSE IF d.doc_type = "Articles of Association"
    THEN (IF ~d.numbered
          THEN <<Finding("AoA paragraphs may not be consecutively numbered.", "Medium")>>
          ELSE <<>>)
    ELSE (IF ~d.adgm
          THEN <<Finding("Missing ADGM governing law / jurisdiction clause.", "High")>>
          ELSE <<>>)

\* a slip: the retrieval outside the try, its failure ending the analysis
AnalyzeDocumentPropagates(d, o, reply) ==
    IF o.raised # "None"
    THEN [raised |-> o.raised, retrieved |-> <<>>, issues |-> <<>>]
    ELSE [raised |-> "None", retrieved |-> o.result, issues |-> reply \o RuleIssues(d)]

\* lines 93-162 of checks.py, the retrieval having gone as o: a failed
\* retrieval is swallowed at lines 96-97 and leaves retrieved = []
AnalyzeDocument(d, o, reply) ==
    [raised |-> "None",
     retrieved |-> IF o.raised # "None" THEN <<>> ELSE o.result,
     issues |-> reply \o RuleIssues(d)]

\* line 19 of qa.py
HoursKeywords ==
    <<<<"h", "o", "u", "r", "s">>,
      <<"w", "o", "r", "k", "i", "n", "g", " ", "t", "i", "m", "e">>,
      <<"w", "o", "r", "k", " ", "h", "o", "u", "r", "s">>,
      <<"h", "o", "u", "r", "s", " ", "o", "f", " ", "w", "o", "r", "k">>>>

EmploymentRegsId == "employment_regulations_2024"

\* any(k in qlower for k in [...])
MentionsHours(question) ==
    \E k \in 1..Len(HoursKeywords) : Contains(HoursKeywords[k], Lower(question))

\* lines 17-22 of qa.py: the filters handed to query_improved
QaFilters(a) ==
    IF MentionsHours(a.question)
    THEN [filter_source_ids |-> <<EmploymentRegsId>>,
          filter_scopes |-> IF a.scopes_given THEN a.scopes ELSE <<EmploymentContracts>>]
    ELSE [filter_source_ids |-> <<>>, filter_scopes |-> a.scopes]

\* lines 82-85 of qa.py
FallbackAnswer ==
    "Under ADGM Employment Regulations 2024, employers must specify working hours in the employment contract"

\* lines 24-91 of qa.py, the retrieval having gone as o and the model having
\* replied reply ("" without Gemini, on a failed call and on an empty reply)
AnswerQuestion(o, reply) ==
    LET passages == IF o.raised # "None" THEN <<>> ELSE o.result
    IN  [raised |-> "None", passages |-> passages,
         answer |-> IF reply = "" THEN FallbackAnswer ELSE reply,
         citations |-> [i \in 1..Len(passages) |->
             [title |-> passages[i].title, citation |-> passages[i].citation]]]

Questions ==
    {<<"H", "o", "u", "r", "s">>,
     <<"W", "o", "r", "k", "i", "n", "g", " ", "t", "i", "m", "e">>,
     <<"h", "o", "u", "r">>,
     <<"f", "e", "e", "s">>}

\* scopes None (not given), [] and one scope tag; top_k 1 and the default
QuestionArgs ==
    {[question |-> q, scopes_given |-> FALSE, scopes |-> <<>>, top_k |-> k] :
        q \in Questions, k \in {1, QaTopKDefault}}
    \cup {[question |-> q, scopes_given |-> TRUE, scopes |-> sc, top_k |-> k] :
        q \in Questions, sc \in {<<>>, << <<"c">> >>}, k \in {1, QaTopKDefault}}

ItemEmp ==
    [id |-> EmploymentRegsId, title |-> "T2", type |-> "regulation",
     path |-> "p2", citation |-> "C2", scope |-> <<EmploymentContracts>>]

\* the corpus behind the assistant: one chunk of source a and one of the
\* employment regulations
AssistManifest == [state |-> "ok", sources |-> <<ItemA, ItemEmp>>]

AssistFiles ==
    [p \in Paths |->
        IF p = "p1" THEN TextFile(<<"a", "b">>)
        ELSE TextFile(<<"b", "a">>)]

InitAssist ==
    /\ manifest_file = AssistManifest
    /\ files = AssistFiles
    /\ add_existing = "ignore"
    /\ chromadb \in BOOLEAN
    /\ has_collection \in {FALSE, chromadb}
    /\ LET r == IngestFrom(SourcesManifestLoad(AssistManifest).sources, 1, AssistFiles,
                           Parsers, <<>>, "ignore",
                           [total |-> 0, ids |-> <<>>, records |-> <<>>])
       IN  IF has_collection
           THEN /\ collection = r.collection
                /\ runs = 1
                /\ ingest_result = [raised |-> "None", chunks_indexed |-> r.total]
                /\ run_ids = r.ids
                /\ run_records = r.records
           ELSE /\ collection = <<>>
                /\ runs = 0
                /\ ingest_result = NoResult
                /\ run_ids = <<>>
                /\ run_records = <<>>
    /\ prev_result = NoResult
    /\ prev_ids = {}
    /\ dirty = FALSE
    /\ rerun = FALSE
    /\ cross_encoder \in BOOLEAN
    /\ NoQuery
    /\ gemini_enabled \in BOOLEAN
    /\ NoAssist
    /\ IdleChunk
    /\ IdleExtract
    /\ IdleChecklist

\* One call of analyze_document, its call of query_improved included
analyze_document ==
    /\ a_pc = "idle" /\ qa_pc = "idle"
    /\ a_pc' = "returned"
    /\ \E d \in Docs,
          reply \in {AskGeminiForIssues(gemini_enabled, l) : l \in LlmIssueChoices} :
        LET sc == AnalysisScopes(d.doc_type)
        IN  \E o \in QueryOutcomes(ChecksTopK, ChecksPreK, sc, <<>>, TRUE) :
              LET r == AnalyzeDocument(d, o, reply)
              IN  /\ QueryCall(ChecksTopK, ChecksPreK, sc, <<>>, TRUE, o)
                  /\ a_doc' = d
                  /\ a_retrieved' = r.retrieved
                  /\ a_issues' = r.issues
                  /\ a_raised' = r.raised
    /\ UNCHANGED <<gemini_enabled, qa_args, qa_passages, qa_answer, qa_citations,
                   qa_raised, qa_pc>>
    /\ UNCHANGED ingestVars
    /\ UNCHANGED chunkVars
    /\ UNCHANGED extractVars
    /\ UNCHANGED checklistVars

\* One call of answer_question, its call of query_improved included
answer_question ==
    /\ qa_pc = "idle"
    /\ qa_pc' = "returned"
    /\ \E a \in QuestionArgs,
          reply \in (IF gemini_enabled THEN {"", "LLM answer"} ELSE {""}) :
        LET f == QaFilters(a)
        IN  \E o \in QueryOutcomes(a.top_k, QaPreK, f.filter_scopes,
                                   f.filter_source_ids, TRUE) :
              LET r == AnswerQuestion(o, reply)
              IN  /\ QueryCall(a.top_k, QaPreK, f.filter_scopes,
                               f.filter_source_ids, TRUE, o)
                  /\ qa_args' = a
                  /\ qa_passages' = r.passages
                  /\ qa_answer' = r.answer
                  /\ qa_citations' = r.citations
                  /\ qa_raised' = r.raised
    /\ UNCHANGED <<gemini_enabled, a_doc, a_retrieved, a_issues, a_raised, a_pc>>
    /\ UNCHANGED ingestVars
    /\ UNCHANGED chunkVars
    /\ UNCHANGED extractVars
    /\ UNCHANGED checklistVars

NextAssist == analyze_document \/ answer_question

SpecAssist == InitAssist /\ [][NextAssist]_vars

----------------------------------------------------------------------------
(* Claims about the callers of query_improved *)

\* the retrieval cannot succeed: chromadb missing or the collection not built
RetrievalFails == ~chromadb \/ ~has_collection

\* the messages the rule-based checks owe a document
RuleMessages(d) ==
    CASE d.doc_type = "Employment Contract" ->
           (IF d.adgm THEN {}
            ELSE {"Missing explicit ADGM governing law reference in employment contract."})
           \cup {TermMessage(t) : t \in Range(KeyTerms) \ d.terms}
      [] d.doc_type = "Articles of Association" ->
           IF d.numbered THEN {} ELSE {"AoA paragraphs may not be consecutively numbered."}
      [] OTHER ->
           IF d.adgm THEN {} ELSE {"Missing ADGM governing law / jurisdiction clause."}

\* C12: when the collection was not built or chromadb is missing,
\* query_improved fails with an error, and neither caller raises because of
\* it: analyze_document retrieves nothing and still returns every rule-based
\* issue of the document; answer_question returns a non-empty answer with no
\* citations and no passages.
C12_RetrievalFailureSwallowed ==
    RetrievalFails =>
        /\ q_pc = "returned" => q_raised \in {"AssertionError", "CollectionNotFound"}
        /\ a_pc = "returned" =>
              /\ a_raised = "None"
              /\ a_retrieved = <<>>
              /\ RuleMessages(a_doc) \subseteq {a_issues[i].issue : i \in 1..Len(a_issues)}
        /\ qa_pc = "returned" =>
              /\ qa_raised = "None"
              /\ qa_answer # ""
              /\ qa_citations = <<>>
              /\ qa_passages = <<>>

\* no collection: an employment contract without any of the key terms was
\* analysed, then a question was answered by the fallback
C12_Witness ==
    /\ chromadb /\ ~has_collection
    /\ a_pc = "returned" /\ qa_pc = "returned"
    /\ q_raised = "CollectionNotFound"
    /\ a_doc.doc_type = "Employment Contract" /\ a_doc.terms = {} /\ ~a_doc.adgm
    /\ Len(a_issues) = 7
    /\ qa_answer = FallbackAnswer

----------------------------------------------------------------------------
(* Claims about the manifest and the extraction of ingest_sources *)

\* a manifest file that is missing, malformed, or holds an entry without one
\* of id, title, type, path
BadManifest(mf) ==
    \/ mf.state # "ok"
    \/ \E i \in 1..Len(mf.sources) :
         ~({"id", "title", "type", "path"} \subseteq DOMAIN mf.sources[i])

\* the latest run of ingest_sources read the manifest file as it is now
LoadedCurrentManifest == runs > 0 /\ ~dirty /\ chromadb

\* C13: loading a missing or malformed manifest, or one with an entry that
\* lacks a required field, fails with ManifestError and with no other error;
\* a manifest whose entries lack at most citation or scope loads.
C13_LoadFailsWithManifestError ==
    LoadedCurrentManifest =>
        /\ BadManifest(manifest_file) => ingest_result.raised = "ManifestError"
        /\ ~BadManifest(manifest_file) =>
              ingest_result.raised \notin
                  {"ManifestError", "FileNotFoundError", "JSONDecodeError", "KeyError"}

\* C14: a run of ingest_sources over a manifest with an entry that lacks a
\* required field ends in an error before anything is written: no source is
\* indexed and the collection is what it was, also when valid entries come
\* before the bad one.
C14_BadEntryAbortsBeforeWrite ==
    [][(runs' = runs + 1 /\ chromadb /\ manifest_file.state = "ok"
            /\ BadManifest(manifest_file)) =>
          /\ ingest_result'.raised # "None"
          /\ ingest_result'.chunks_indexed = 0
          /\ run_ids' = <<>>
          /\ has_collection' = has_collection
          /\ collection' = collection]_vars

\* the second run met an entry without id behind a valid entry whose file has
\* text; the collection still holds what the first run wrote
C14_Witness ==
    /\ runs = 2 /\ ~dirty /\ chromadb
    /\ Len(manifest_file.sources) = 2
    /\ ~BadManifest([state |-> "ok", sources |-> <<manifest_file.sources[1]>>])
    /\ "id" \notin DOMAIN manifest_file.sources[2]
    /\ files[manifest_file.sources[1].path].content = <<"a", "b", "c">>
    /\ ingest_result = [raised |-> "KeyError", chunks_indexed |-> 0]
    /\ prev_result.raised = "None" /\ prev_result.chunks_indexed > 0
    /\ collection # <<>> /\ DOMAIN collection = prev_ids

\* C15: read_text_from_source never raises: whatever the extension, a file
\* that cannot be opened or parsed gives "".
C15_ExtractorNeverRaises ==
    x_pc = "returned" =>
        /\ x_result.raised = "None"
        /\ (~files[x_path].exists \/ ~files[x_path].readable) => x_result.text = <<>>

\* the optional parser a format needs
ParserOf(ext) ==
    CASE ext \in {".html", ".htm"} -> "BeautifulSoup"
      [] ext = ".pdf"              -> "pypdf"
      [] ext = ".docx"             -> "docx"
      [] OTHER                     -> "none"

\* a file of a format whose parser is not installed
ParserMissing(f) == f.exists /\ ParserOf(f.ext) \in (Parsers \ parsers)

\* C16: extracting a file of a format whose optional parser is unavailable
\* gives "", so that ingest_sources skips the source instead of indexing its
\* raw bytes.
C16_MissingParserGivesEmpty ==
    /\ (x_pc = "returned" /\ ParserMissing(files[x_path])) =>
          x_result = [raised |-> "None", text |-> <<>>]
    /\ runs > 0 =>
          \A i \in 1..Len(manifest_file.sources) :
              ParserMissing(files[manifest_file.sources[i].path]) =>
                  \A id \in DOMAIN run_records :
                      run_records[id].metadata.source_id # manifest_file.sources[i].id

\* the text ingest_sources has of a source: "" when the extraction failed
ExtractedText(src) ==
    LET x == ReadTextFromSource(files, src, parsers)
    IN  IF x.raised = "None" THEN x.text ELSE <<>>

RECURSIVE SumChunks(_, _)
\* the chunks of the sources from the i-th on that have non-blank text
SumChunks(srcs, i) ==
    IF i > Len(srcs) THEN 0
    ELSE (IF IsBlank(ExtractedText(srcs[i])) THEN 0
          ELSE Len(chunk_text(ExtractedText(srcs[i]), CfgChunkSize, CfgChunkOverlap)))
         + SumChunks(srcs, i + 1)

\* C17: ingest_sources goes through every source entry: a source that is not
\* found, is blank or fails to extract adds no chunks and does not stop the
\* sources behind it, and chunks_indexed is the sum of the chunk counts of
\* the sources with non-blank text.
C17_EverySourceProcessed ==
    (runs > 0 /\ ~BadManifest(manifest_file)) =>
        LET srcs == SourcesManifestLoad(manifest_file).sources
        IN  /\ ingest_result.raised = "None"
            /\ ingest_result.chunks_indexed = SumChunks(srcs, 1)
            /\ \A i \in 1..Len(srcs) :
                  ~IsBlank(ExtractedText(srcs[i])) =>
                      \E k \in 1..Len(run_ids) : run_ids[k] = ChunkId(srcs[i].id, 0)

----------------------------------------------------------------------------
(* infer_process (process/inference.py 7-29) and compute_missing_docs      *)
(* (process/checklists.py 49-79)                                           *)

\* most labels in one upload
MaxLabels == 3

\* KNOWN_LABELS of the classifier, and two labels only a caller can pass: a
\* required document the classifier never yields and the composite entry
KnownLabels ==
    {"Articles of Association", "Shareholder Resolution", "Board Resolution",
     "Incorporation Application Form", "Register of Members",
     "Register of Directors", "Employment Contract", "Data Protection Policy",
     "Appropriate Policy Document", "Other"}

\* DocumentClassifier.classify, classifier.py 29-72: the labels it can return:
\* the literals of the filename rules (32-48) and of the content rules
\* (53-65), a label Gemini picked, which classify takes from KNOWN_LABELS
\* only (68-70; gemini_client.py 38-44), and "Other"
ClassifyResults ==
    {"Articles of Association", "Employment Contract", "Register of Members",
     "Register of Directors", "Shareholder Resolution",
     "Incorporation Application Form", "Appropriate Policy Document",
     "Data Protection Policy"}
    \cup KnownLabels \cup {"Other"}

Labels == KnownLabels \cup {"UBO Declaration Form", "Register of Members and Directors"}

\* Counter(doc_types)[label]
Counts(types, label) == Cardinality({i \in 1..Len(types) : types[i] = label})

\* a slip: the incorporation rule tried before the amendment rule
InferProcessIncorporationFirst(types) ==
    IF (Counts(types, "Articles of Association") >= 1
           /\ (Counts(types, "Shareholder Resolution") >= 1
               \/ Counts(types, "Board Resolution") >= 1))
       \/ Counts(types, "Incorporation Application Form") >= 1
    THEN "Company Incorporation (Private Company)"
    ELSE IF Counts(types, "Shareholder Resolution") >= 1
            /\ Counts(types, "Articles of Association") >= 1
    THEN "AoA Amendment"
    ELSE IF Counts(types, "Employment Contract") >= 1
    THEN "Employment Compliance"
    ELSE IF Counts(types, "Appropriate Policy Document") >= 1
    THEN "Data Protection Compliance"
    ELSE "Unknown"

\* a slip: `or` for `and` in the amendment rule
InferProcessAmendmentOnEither(types) ==
    IF Counts(types, "Shareholder Resolution") >= 1
       \/ Counts(types, "Articles of Association") >= 1
    THEN "AoA Amendment"
    ELSE IF Counts(types, "Incorporation Application Form") >= 1
    THEN "Company Incorporation (Private Company)"
    ELSE IF Counts(types, "Employment Contract") >= 1
    THEN "Employment Compliance"
    ELSE IF Counts(types, "Appropriate Policy Document") >= 1
    THEN "Data Protection Compliance"
    ELSE "Unknown"

\* infer_process, inference.py 7-29
InferProcess(types) ==
    IF Counts(types, "Shareholder Resolution") >= 1
       /\ Counts(types, "Articles of Association") >= 1
    THEN "AoA Amendment"
    ELSE IF (Counts(types, "Articles of Association") >= 1
                /\ (Counts(types, "Shareholder Resolution") >= 1
                    \/ Counts(types, "Board Resolution") >= 1))
            \/ Counts(types, "Incorporation Application Form") >= 1
    THEN "Company Incorporation (Private Company)"
    ELSE IF Counts(types, "Employment Contract") >= 1
    THEN "Employment Compliance"
    ELSE IF Counts(types, "Appropriate Policy Document") >= 1
    THEN "Data Protection Compliance"
    ELSE "Unknown"

\* the keys of REQUIRED_DOCS_BY_PROCESS
Processes ==
    {"Company Incorporation (Private Company)", "Employment Compliance",
     "Data Protection Compliance", "AoA Amendment"}

\* a slip: the UBO declaration left out of the incorporation checklist
RequiredDocsWithoutUbo(process) ==
    CASE process = "Company Incorporation (Private Company)" ->
           <<"Articles of Association", "Board Resolution",
             "Incorporation Application Form",
             "Register of Members and Directors">>
      [] process = "Employment Compliance" -> <<"Employment Contract">>
      [] process = "Data Protection Compliance" -> <<"Appropriate Policy Document">>
      [] process = "AoA Amendment" ->
           <<"Articles of Association", "Shareholder Resolution">>
      [] OTHER -> <<>>

\* REQUIRED_DOCS_BY_PROCESS.get(process, []), checklists.py 7-25
RequiredDocs(process) ==
    CASE process = "Company Incorporation (Private Company)" ->
           <<"Articles of Association", "Board Resolution",
             "Incorporation Application Form", "UBO Declaration Form",
             "Register of Members and Directors">>
      [] process = "Employment Compliance" -> <<"Employment Contract">>
      [] process = "Data Protection Compliance" -> <<"Appropriate Policy Document">>
      [] process = "AoA Amendment" ->
           <<"Articles of Association", "Shareholder Resolution">>
      [] OTHER -> <<>>

\* SYNONYMS, checklists.py 28-31
SYNONYMS ==
    [r \in {"Register of Members and Directors"} |->
        {"Register of Members", "Register of Directors"}]

\* a slip: the branch of lines 72-75 appending to present, a Shareholder
\* Resolution standing for a Board Resolution
IsPresentAcceptsShareholder(req, uploaded_set) ==
    IF req \in DOMAIN SYNONYMS THEN SYNONYMS[req] \subseteq uploaded_set
    ELSE \/ req \in uploaded_set
         \/ req = "Board Resolution" /\ "Shareholder Resolution" \in uploaded_set

\* a slip: parts & uploaded_set, one constituent standing for the composite
IsPresentAnyPart(req, uploaded_set) ==
    IF req \in DOMAIN SYNONYMS THEN (SYNONYMS[req] \cap uploaded_set) # {}
    ELSE req \in uploaded_set

\* lines 57-77: whether the loop appends req to present. A composite entry
\* needs all of its parts; any other entry needs its own label (a Shareholder
\* Resolution does not stand for a Board Resolution: line 74 appends to
\* missing).
IsPresent(req, uploaded_set) ==
    IF req \in DOMAIN SYNONYMS THEN SYNONYMS[req] \subseteq uploaded_set
    ELSE req \in uploaded_set

RECURSIVE ComputeMissingFrom(_, _, _, _)
\* the for loop of lines 56-77 from the i-th required entry on
ComputeMissingFrom(required, i, uploaded_set, acc) ==
    IF i > Len(required) THEN acc
    ELSE ComputeMissingFrom(required, i + 1, uploaded_set,
            IF IsPresent(required[i], uploaded_set)
            THEN [acc EXCEPT !.present = Append(@, required[i])]
            ELSE [acc EXCEPT !.missing = Append(@, required[i])])

\* compute_missing_docs(process, uploaded_doc_types), lines 49-79
ComputeMissingDocs(process, uploaded) ==
    ComputeMissingFrom(RequiredDocs(process), 1, Range(uploaded),
                       [present |-> <<>>, missing |-> <<>>])

RECURSIVE CompareFrom(_, _, _, _)
\* the for loop of lines 41-45 from the i-th required entry on:
\* `req in uploaded_doc_types` on the list, no composite logic
CompareFrom(required, i, uploaded, acc) ==
    IF i > Len(required) THEN acc
    ELSE CompareFrom(required, i + 1, uploaded,
            IF \E k \in 1..Len(uploaded) : uploaded[k] = required[i]
            THEN [acc EXCEPT !.present = Append(@, required[i])]
            ELSE [acc EXCEPT !.missing = Append(@, required[i])])

\* compare_uploaded_to_required(process, uploaded_doc_types), lines 34-46
CompareUploadedToRequired(process, uploaded) ==
    CompareFrom(RequiredDocs(process), 1, uploaded,
                [present |-> <<>>, missing |-> <<>>])

InitChecklist ==
    /\ doc_types \in SeqsUpTo(Labels, MaxLabels)
    /\ NoChecklist
    /\ IdleChunk
    /\ IdleIngest
    /\ chromadb = TRUE
    /\ IdleQuery
    /\ IdleAssist
    /\ IdleExtract

\* infer_process(doc_types)
infer_process ==
    /\ ip_pc = "idle"
    /\ ip_pc' = "returned"
    /\ auto_process' = InferProcess(doc_types)
    /\ UNCHANGED <<doc_types, cm_process, present, missing, cm_pc,
                   fb_present, fb_missing, fb_pc>>
    /\ UNCHANGED chunkVars
    /\ UNCHANGED ingestVars
    /\ UNCHANGED queryVars
    /\ UNCHANGED assistVars
    /\ UNCHANGED extractVars

\* compute_missing_docs(process, doc_types) for a process of the table or an
\* unknown one
compute_missing_docs ==
    /\ cm_pc = "idle"
    /\ cm_pc' = "returned"
    /\ \E process \in Processes \cup {"Unknown"} :
        LET r == ComputeMissingDocs(process, doc_types)
        IN  /\ cm_process' = process
            /\ present' = r.present
            /\ missing' = r.missing
    /\ UNCHANGED <<doc_types, auto_process, ip_pc, fb_present, fb_missing, fb_pc>>
    /\ UNCHANGED chunkVars
    /\ UNCHANGED ingestVars
    /\ UNCHANGED queryVars
    /\ UNCHANGED assistVars
    /\ UNCHANGED extractVars

\* compare_uploaded_to_required(process, doc_types), the fallback of
\* _compute_missing (ui/app.py 41-50), for the process and the labels
\* compute_missing_docs was called for
compare_uploaded_to_required ==
    /\ cm_pc = "returned"
    /\ fb_pc = "idle"
    /\ fb_pc' = "returned"
    /\ LET r == CompareUploadedToRequired(cm_process, doc_types)
       IN  /\ fb_present' = r.present
           /\ fb_missing' = r.missing
    /\ UNCHANGED <<doc_types, auto_process, ip_pc, cm_process, present, missing, cm_pc>>
    /\ UNCHANGED chunkVars
    /\ UNCHANGED ingestVars
    /\ UNCHANGED queryVars
    /\ UNCHANGED assistVars
    /\ UNCHANGED extractVars

NextChecklist == infer_process \/ compute_missing_docs \/ compare_uploaded_to_required

SpecChecklist == InitChecklist /\ [][NextChecklist]_vars

----------------------------------------------------------------------------
(* Claims about infer_process and compute_missing_docs *)

\* the labels uploaded, as a set
Uploaded == Range(doc_types)

\* C18: infer_process applies its rules in order, first match wins, on the
\* set of labels alone: Shareholder Resolution with Articles of Association
\* is "AoA Amendment", also when the incorporation rule matches too; Articles
\* of Association with a Shareholder or Board Resolution, or an Incorporation
\* Application Form, is "Company Incorporation (Private Company)"; then
\* Employment Contract, then Appropriate Policy Document; else "Unknown".
C18_InferProcessRules ==
    ip_pc = "returned" =>
        auto_process =
            IF {"Shareholder Resolution", "Articles of Association"} \subseteq Uploaded
            THEN "AoA Amendment"
            ELSE IF \/ /\ "Articles of Association" \in Uploaded
                       /\ {"Shareholder Resolution", "Board Resolution"} \cap Uploaded # {}
                    \/ "Incorporation Application Form" \in Uploaded
            THEN "Company Incorporation (Private Company)"
            ELSE IF "Employment Contract" \in Uploaded THEN "Employment Compliance"
            ELSE IF "Appropriate Policy Document" \in Uploaded
            THEN "Data Protection Compliance"
            ELSE "Unknown"

\* articles with both resolutions: the amendment rule and the incorporation
\* rule both match
C18_Witness ==
    /\ ip_pc = "returned"
    /\ Uploaded = {"Articles of Association", "Shareholder Resolution", "Board Resolution"}
    /\ auto_process = "AoA Amendment"

\* whether a required entry counts as uploaded
Covered(req) ==
    IF req = "Register of Members and Directors"
    THEN "Register of Members" \in Uploaded /\ "Register of Directors" \in Uploaded
    ELSE req \in Uploaded

\* C19: compute_missing_docs splits the required list of the process, in its
\* order, into present and missing: the composite entry is present exactly
\* when all of its parts are uploaded, any other entry exactly when its own
\* label is uploaded (a Shareholder Resolution does not cover a Board
\* Resolution); how often a label is uploaded makes no difference.
C19_PresentMissingPartition ==
    cm_pc = "returned" =>
        LET required == RequiredDocs(cm_process)
        IN  /\ present = SelectSeq(required, LAMBDA r : Covered(r))
            /\ missing = SelectSeq(required, LAMBDA r : ~Covered(r))
            /\ Len(present) + Len(missing) = Len(required)
            /\ Range(present) \cap Range(missing) = {}

\* incorporation with the articles, a shareholder resolution and one of the
\* two registers: only the articles are present
C19_Witness ==
    /\ cm_pc = "returned"
    /\ cm_process = "Company Incorporation (Private Company)"
    /\ Uploaded = {"Articles of Association", "Shareholder Resolution", "Register of Members"}
    /\ present = <<"Articles of Association">>
    /\ missing = <<"Board Resolution", "Incorporation Application Form",
                   "UBO Declaration Form", "Register of Members and Directors">>

----------------------------------------------------------------------------
(* Claims about the pull and the truncation of query_improved *)

\* C20: query_improved pulls max(pre_k, top_k) neighbours (all records when
\* the collection holds fewer) and cuts to top_k only after the filters and
\* the re-ranking: the result is the first top_k of the final candidates, at
\* most top_k passages, each with the text and the title, citation,
\* source_id and scope of a record as ingest_sources stored it.
C20_PullsThenTruncates ==
    QueryReturned =>
        LET n == IF q_args.pre_k >= q_args.top_k THEN q_args.pre_k ELSE q_args.top_k
            held == Cardinality(DOMAIN collection)
        IN  /\ Len(pulled) = IF n <= held THEN n ELSE held
            /\ Len(q_result) <= q_args.top_k
            /\ Len(q_result) = IF q_args.top_k <= Len(candidates)
                               THEN q_args.top_k ELSE Len(candidates)
            /\ \A i \in 1..Len(q_result) :
                  /\ q_result[i].text = candidates[i][1]
                  /\ \A k \in {"title", "citation", "source_id", "scope"} :
                        q_result[i][k] = candidates[i][2][k]
                  /\ \E id \in DOMAIN run_records :
                        /\ run_records[id].document = q_result[i].text
                        /\ \A k \in {"title", "citation", "source_id", "scope"} :
                              run_records[id].metadata[k] = q_result[i][k]

\* three records pulled for top_k = 1, re-ranked into another order, the
\* first of them returned
C20_Witness ==
    /\ QueryReturned /\ rerank_step = "ranked"
    /\ q_args.top_k = 1 /\ q_args.pre_k = 3
    /\ Len(pulled) = 3 /\ Len(filtered) >= 2
    /\ candidates # filtered
    /\ Len(q_result) = 1 /\ q_result[1].text = candidates[1][1]

----------------------------------------------------------------------------
(* Claims about the keyword override of answer_question *)

\* C21: answer_question retrieves for a question that mentions a
\* working-hours term with the source-id allowlist
\* [employment_regulations_2024] and the Employment Contracts scope, and for
\* any other question with the scopes the caller passed and no allowlist.
C21_HoursOverride ==
    qa_pc = "returned" =>
        IF MentionsHours(qa_args.question)
        THEN /\ q_args.filter_source_ids = <<EmploymentRegsId>>
             /\ q_args.filter_scopes = <<EmploymentContracts>>
        ELSE /\ q_args.filter_source_ids = <<>>
             /\ q_args.filter_scopes = qa_args.scopes

----------------------------------------------------------------------------
(* Claims about the checklist of the inferred process *)

\* compute_missing_docs was called for the process infer_process returned
\* for the same labels
CheckedInferred == ip_pc = "returned" /\ cm_pc = "returned" /\ cm_process = auto_process

\* C22: when infer_process gives "AoA Amendment", "Employment Compliance" or
\* "Data Protection Compliance" for a list of labels, compute_missing_docs
\* for that process and the same labels returns no missing document.
C22_InferredChecklistComplete ==
    (CheckedInferred
        /\ auto_process \in {"AoA Amendment", "Employment Compliance",
                             "Data Protection Compliance"}) =>
        missing = <<>>

\* an amendment inferred from the articles, a shareholder resolution and a
\* third document
C22_Witness ==
    /\ CheckedInferred /\ auto_process = "AoA Amendment"
    /\ Cardinality(Uploaded) = 3
    /\ present = <<"Articles of Association", "Shareholder Resolution">>
    /\ missing = <<>>

\* C23: for labels the classifier can yield (KNOWN_LABELS),
\* compute_missing_docs for "Company Incorporation (Private Company)" lists
\* "UBO Declaration Form" as missing, so the missing list of an incorporation
\* run is never empty.
C23_UboAlwaysMissing ==
    /\ ClassifyResults = KnownLabels
    /\ (cm_pc = "returned" /\ cm_process = "Company Incorporation (Private Company)"
            /\ Uploaded \subseteq ClassifyResults) =>
          /\ \E i \in 1..Len(missing) : missing[i] = "UBO Declaration Form"
          /\ missing # <<>>

\* every other incorporation document uploaded: the articles, the board
\* resolution and the application form present, the declaration missing
C23_Witness ==
    /\ cm_pc = "returned" /\ cm_process = "Company Incorporation (Private Company)"
    /\ Uploaded = {"Articles of Association", "Board Resolution",
                   "Incorporation Application Form"}
    /\ present = <<"Articles of Association", "Board Resolution",
                   "Incorporation Application Form">>
    /\ missing = <<"UBO Declaration Form", "Register of Members and Directors">>

----------------------------------------------------------------------------
(* Claims about the fallback comparison *)

Composite == "Register of Members and Directors"

\* a list without the composite entry
WithoutComposite(s) == SelectSeq(s, LAMBDA r : r # Composite)

\* C24: compare_uploaded_to_required and compute_missing_docs, for the same
\* process and labels, put every requirement other than "Register of Members
\* and Directors" into the same list, present or missing, in the same
\* order; only the composite entry can fall on different sides.
C24_FallbackDiffersOnCompositeOnly ==
    fb_pc = "returned" =>
        /\ WithoutComposite(fb_present) = WithoutComposite(present)
        /\ WithoutComposite(fb_missing) = WithoutComposite(missing)
        /\ Range(fb_present) \cup Range(fb_missing) = Range(present) \cup Range(missing)
        /\ (fb_present # present \/ fb_missing # missing) =>
              /\ cm_process = "Company Incorporation (Private Company)"
              /\ (Composite \in Range(present)) # (Composite \in Range(fb_present))

\* incorporation with the articles and both registers: the composite entry is
\* present for compute_missing_docs and missing for the fallback
C24_Witness ==
    /\ fb_pc = "returned"
    /\ cm_process = "Company Incorporation (Private Company)"
    /\ Uploaded = {"Articles of Association", "Register of Members", "Register of Directors"}
    /\ present = <<"Articles of Association", Composite>>
    /\ fb_present = <<"Articles of Association">>
    /\ fb_missing = <<"Board Resolution", "Incorporation Application Form",
                      "UBO Declaration Form", Composite>>

====
